---- MODULE Spec2Model ----
(***************************************************************************)
(* A model of server_wamp/protocol.py: one WAMPProtocol object serving one *)
(* connection.  The protocol object keeps no mutable field of its own (its *)
(* session is a frozen dataclass), so what can be observed of it is the    *)
(* sequence of calls it makes on its collaborators: the transport          *)
(* (schedule_msg, close) and the open / rpc / subscribe / unsubscribe      *)
(* handlers.  The model records these calls, in order, together with the   *)
(* exception (if any) that leaves each handle_msg invocation.              *)
(***************************************************************************)
EXTENDS Integers, Sequences, FiniteSets, TLC

VARIABLES
    session,    \* self.session, the frozen WAMPSession built by __init__
    calls,      \* every call made on a collaborator so far, in order
    handled,    \* one record per handle_msg invocation, in order of invocation
    task        \* the handle_msg coroutine that is suspended at an await, if any

vars == <<session, calls, handled, task>>

----------------------------------------------------------------------------
(* Bounds of the model.                                                    *)

\* generate_global_id draws from 1..2^53; the model draws from 1..MaxGlobalId.
MaxGlobalId == 2

\* The number of operations (handle_msg invocations plus publish_event
\* calls) in one behaviour.
MaxOps == 2

----------------------------------------------------------------------------
(* Python values.  Each kind of value is a record with its own field name, *)
(* so that values of different kinds are never equal.                      *)

PyInt(n) == [int |-> n]
PyStr(s) == [str |-> s]
PyList(q) == [list |-> q]
PyTuple(q) == [tuple |-> q]
PyDict(d) == [dict |-> d]
PyNone == [none |-> TRUE]
EmptyDict == [dict |-> <<>>]
EmptyTuple == [tuple |-> <<>>]

isinstance(v, kind) == kind \in DOMAIN v

\* Python truthiness, as used by `if msg:` and `if event.kwargs:`.
truthy(v) ==
    IF isinstance(v, "none") THEN FALSE
    ELSE IF isinstance(v, "str") THEN v.str # ""
    ELSE IF isinstance(v, "int") THEN v.int # 0
    ELSE IF isinstance(v, "list") THEN Len(v.list) # 0
    ELSE IF isinstance(v, "tuple") THEN Len(v.tuple) # 0
    ELSE IF isinstance(v, "dict") THEN DOMAIN v.dict # {}
    ELSE TRUE

\* The members of the IntEnum WAMPMsgType and their integer values.
WAMPMsgType ==
    [HELLO |-> 1, WELCOME |-> 2, ABORT |-> 3, ERROR |-> 8,
     CALL |-> 48, CALL_RESULT |-> 50, INVOCATION |-> 68,
     SUBSCRIBE |-> 32, SUBSCRIBED |-> 33,
     UNSUBSCRIBE |-> 34, UNSUBSCRIBED |-> 35,
     PUBLISH |-> 16, PUBLISHED |-> 17, EVENT |-> 36]

Member(name) == [enum |-> name]

\* `v == WAMPMsgType.<name>` for a value v read from a decoded envelope: an
\* IntEnum member equals the int of its value and no str, list or dict.
EqualsMember(v, name) == isinstance(v, "int") /\ v.int = WAMPMsgType[name]

----------------------------------------------------------------------------
(* JSON documents, and json.dumps / json.loads between them and Python     *)
(* values.  A text on the wire is either [json |-> document] or            *)
(* [garbage |-> ...], a text that is no JSON document.                     *)

JNumber(n) == [number |-> n]
JString(s) == [string |-> s]
JArray(q) == [array |-> q]
JObject(d) == [object |-> d]
JNull == [null |-> TRUE]

\* Whether json.dumps accepts v: instances of the dataclasses of this module
\* and coroutine objects ([obj |-> ...]) are not JSON serializable.
RECURSIVE serializable(_)
serializable(v) ==
    IF isinstance(v, "obj") THEN FALSE
    ELSE IF isinstance(v, "list")
        THEN \A i \in 1..Len(v.list) : serializable(v.list[i])
    ELSE IF isinstance(v, "tuple")
        THEN \A i \in 1..Len(v.tuple) : serializable(v.tuple[i])
    ELSE IF isinstance(v, "dict")
        THEN \A k \in DOMAIN v.dict : serializable(v.dict[k])
    ELSE TRUE

\* json.dumps: tuples and lists both become arrays, an IntEnum member becomes
\* the number of its value.
RECURSIVE dumps(_)
dumps(v) ==
    IF isinstance(v, "enum") THEN JNumber(WAMPMsgType[v.enum])
    ELSE IF isinstance(v, "int") THEN JNumber(v.int)
    ELSE IF isinstance(v, "str") THEN JString(v.str)
    ELSE IF isinstance(v, "list")
        THEN JArray([i \in 1..Len(v.list) |-> dumps(v.list[i])])
    ELSE IF isinstance(v, "tuple")
        THEN JArray([i \in 1..Len(v.tuple) |-> dumps(v.tuple[i])])
    ELSE IF isinstance(v, "dict")
        THEN JObject([k \in DOMAIN v.dict |-> dumps(v.dict[k])])
    ELSE JNull

serialize(v) == [json |-> dumps(v)]

\* json.loads: arrays become lists, objects dicts, numbers ints.
RECURSIVE loads(_)
loads(j) ==
    IF "number" \in DOMAIN j THEN PyInt(j.number)
    ELSE IF "string" \in DOMAIN j THEN PyStr(j.string)
    ELSE IF "array" \in DOMAIN j
        THEN PyList([i \in 1..Len(j.array) |-> loads(j.array[i])])
    ELSE IF "object" \in DOMAIN j
        THEN PyDict([k \in DOMAIN j.object |-> loads(j.object[k])])
    ELSE PyNone

\* json.loads raises JSONDecodeError on a text that is no JSON document.
decodable(message) == "json" \in DOMAIN message
deserialize(message) == loads(message.json)

----------------------------------------------------------------------------
(* Calls on the collaborators.  A call that the code awaits carries        *)
(* awaited |-> TRUE: the coroutine making it is suspended there until the  *)
(* event loop resumes it.  The transport is not part of this module:       *)
(* schedule_msg is taken to hand the text to the peer when called and to   *)
(* return an awaitable (do_protocol_violation awaits it, every other       *)
(* caller drops it), and close to return an awaitable.  The four handlers  *)
(* are taken to have been injected (none is left at its default, None).    *)

schedule_msg(text) == [op |-> "schedule_msg", msg |-> text, awaited |-> FALSE]
await_schedule_msg(text) == [op |-> "schedule_msg", msg |-> text, awaited |-> TRUE]
await_close == [op |-> "close", awaited |-> TRUE]
\* A handler call that is awaited (`result = await self._rpc_handler(request)`).
call_handler_awaited(handler, request, outcome) ==
    [op |-> handler, request |-> request, outcome |-> outcome, awaited |-> TRUE]

call_handler(handler, request, outcome) ==
    [op |-> handler, request |-> request, outcome |-> outcome, awaited |-> FALSE]

(* What running a method does: the calls it makes, the exception that      *)
(* leaves it ("None" when it returns), and whether calling it gives an     *)
(* awaitable (an `async def`) or the value None (a plain `def`).           *)
Return(cs) == [calls |-> cs, exc |-> "None", awaitable |-> FALSE]
Raise(cs, e) == [calls |-> cs, exc |-> e, awaitable |-> FALSE]
Coroutine(r) == [r EXCEPT !.awaitable = TRUE]

\* `await x`: a coroutine runs to its end; None "can't be used in 'await'
\* expression" and raises TypeError after the call that returned it.
Await(r) ==
    IF r.exc # "None" \/ r.awaitable THEN r
    ELSE [r EXCEPT !.exc = "TypeError"]

\* isinstance(v, <a dataclass of this module>)
IsInstanceOf(v, cls) == isinstance(v, "obj") /\ v.obj = cls

----------------------------------------------------------------------------
(* What the injected handlers may do when called.                          *)

RPCErrorResponse ==
    [obj |-> "WAMPRPCErrorResponse", uri |-> PyStr("app.error.no_such_procedure"),
     details |-> PyDict([reason |-> PyStr("unknown")]),
     args |-> PyTuple(<<PyInt(1)>>), kwargs |-> EmptyDict]

SubscribeErrorResponse ==
    [obj |-> "WAMPSubscribeErrorResponse", uri |-> PyStr("wamp.error.no_such_topic"),
     details |-> PyDict([reason |-> PyStr("unknown")])]

UnsubscribeErrorResponse ==
    [obj |-> "WAMPUnsubscribeErrorResponse",
     uri |-> PyStr("wamp.error.no_such_subscription"),
     details |-> PyDict([reason |-> PyStr("unknown")])]

OpenOutcomes == {[returns |-> PyNone], [raises |-> "boom"]}

\* The rpc handler returns a plain value, a typed error, or (an `async def`
\* handler) a coroutine object, which would complete with `result` if it were
\* awaited; or it raises.
RpcOutcomes ==
    {[returns |-> PyInt(5)], [returns |-> RPCErrorResponse],
     [returns |-> [obj |-> "coroutine", result |-> PyInt(5)]], [raises |-> "boom"]}

SubscribeOutcomes ==
    {[returns |-> [obj |-> "WAMPSubscribeResponse", subscription |-> PyInt(42)]],
     [returns |-> SubscribeErrorResponse], [raises |-> "boom"]}

UnsubscribeOutcomes ==
    {[returns |-> PyNone], [returns |-> UnsubscribeErrorResponse], [raises |-> "boom"]}

raised(o) == "raises" \in DOMAIN o

----------------------------------------------------------------------------
(* The methods of WAMPProtocol.  self is [session, agent_name].            *)

\* do_unimplemented with its two parameters confused: the reply carries the
\* message type where the request id belongs.
do_unimplemented_type_for_id(self, msg_type, request_id) ==
    LET error_msg == PyTuple(<<Member("ERROR"), msg_type, EmptyDict,
                               PyStr("wamp.error.not_implemented")>>)
    IN  Return(<<schedule_msg(serialize(error_msg))>>)

do_unimplemented(self, msg_type, request_id) ==
    LET error_msg == PyTuple(<<Member("ERROR"), request_id, EmptyDict,
                               PyStr("wamp.error.not_implemented")>>)
    IN  Return(<<schedule_msg(serialize(error_msg))>>)

\* do_protocol_violation that forgets the ABORT and only closes.
do_protocol_violation_close_only(self, msg) ==
    Coroutine(Return(<<await_close>>))

\* do_protocol_violation with its last two statements exchanged: the
\* transport is closed before the ABORT is handed to it.
do_protocol_violation_close_first(self, msg) ==
    LET details == IF truthy(msg) THEN PyDict([message |-> msg]) ELSE EmptyDict
        error_msg == PyTuple(<<Member("ABORT"), details,
                               PyStr("wamp.error.protocol_violation")>>)
    IN  Coroutine(Return(<<await_close, await_schedule_msg(serialize(error_msg))>>))

do_protocol_violation(self, msg) ==
    LET details == IF truthy(msg) THEN PyDict([message |-> msg]) ELSE EmptyDict
        error_msg == PyTuple(<<Member("ABORT"), details,
                               PyStr("wamp.error.protocol_violation")>>)
    IN  Coroutine(Return(<<await_schedule_msg(serialize(error_msg)), await_close>>))

\* do_welcome announcing a freshly generated id instead of the session's.
do_welcome_fresh_id(self) ==
    LET welcome ==
            PyTuple(<<Member("WELCOME"),
                      PyInt((self.session.session_id % MaxGlobalId) + 1),
                      PyDict([roles |-> PyDict([broker |-> EmptyDict,
                                                dealer |-> EmptyDict]),
                              agent |-> PyStr(self.agent_name)])>>)
    IN  Return(<<schedule_msg(serialize(welcome))>>)

do_welcome(self) ==
    LET welcome ==
            PyTuple(<<Member("WELCOME"), PyInt(self.session.session_id),
                      PyDict([roles |-> PyDict([broker |-> EmptyDict,
                                                dealer |-> EmptyDict]),
                              agent |-> PyStr(self.agent_name)])>>)
    IN  Return(<<schedule_msg(serialize(welcome))>>)

do_unauthorized(self, data) ==
    IF Len(data.list) < 2 THEN Raise(<<>>, "IndexError")
    ELSE LET msg_type == data.list[1]
             request_id == data.list[2]
         IN  Return(<<schedule_msg(serialize(
                 PyTuple(<<msg_type, request_id, EmptyDict,
                           PyStr("wamp.error.not_authorized")>>)))>>)

\* publish_event appending kwargs alone: args is left out when it is empty.
publish_event_kwargs_alone(self, subscription, event) ==
    LET head == <<Member("EVENT"), subscription, event.publication, EmptyDict>>
        with_args == IF truthy(event.args) THEN head \o <<event.args>> ELSE head
        msg == IF truthy(event.kwargs) THEN with_args \o <<event.kwargs>> ELSE with_args
    IN  Return(<<schedule_msg(serialize(PyList(msg)))>>)

publish_event(self, subscription, event) ==
    LET head == <<Member("EVENT"), subscription, event.publication, EmptyDict>>
        msg == IF truthy(event.kwargs) THEN head \o <<event.args, event.kwargs>>
               ELSE IF truthy(event.args) THEN head \o <<event.args>>
               ELSE head
    IN  Return(<<schedule_msg(serialize(PyList(msg)))>>)

\* The last statement of the three recv_* methods: serialize raises TypeError
\* on a value json cannot encode, before schedule_msg is called.
send_result(cs, result_msg) ==
    IF serializable(result_msg)
        THEN Coroutine(Return(cs \o <<schedule_msg(serialize(result_msg))>>))
        ELSE Coroutine(Raise(cs, "TypeError"))

\* The success reply with its last two fields exchanged.
call_result_msg_swapped(request_id, result) ==
    PyTuple(<<Member("CALL_RESULT"), result, request_id>>)

\* result_msg = (WAMPMsgType.CALL_RESULT, request_id, result)
call_result_msg(request_id, result) ==
    PyTuple(<<Member("CALL_RESULT"), request_id, result>>)

recv_rpc_call(self, data) ==
    IF Len(data.list) < 3 THEN {Coroutine(Raise(<<>>, "IndexError"))}
    ELSE
    LET request_id == data.list[2]
        uri == data.list[3]
        args == IF Len(data.list) > 3 THEN data.list[4] ELSE EmptyTuple
        kwargs == IF Len(data.list) > 4 THEN data.list[5] ELSE EmptyDict
        request == [obj |-> "WAMPRPCRequest", session |-> self.session,
                    request_id |-> request_id, uri |-> uri, options |-> EmptyDict,
                    args |-> args, kwargs |-> kwargs]
        result_msg(o) ==
            IF raised(o)
                THEN PyTuple(<<Member("ERROR"), Member("CALL"), request_id, EmptyDict,
                               PyStr("wamp.error.exception_during_rpc_call"),
                               PyStr(o.raises)>>)
            ELSE IF IsInstanceOf(o.returns, "WAMPRPCErrorResponse")
                THEN PyTuple(<<Member("ERROR"), Member("CALL"), request_id, EmptyDict,
                               o.returns.uri, o.returns.args, o.returns.kwargs>>)
            ELSE call_result_msg(request_id, o.returns)
    IN  IF ~isinstance(request_id, "int") \/ ~isinstance(uri, "str")
            THEN {Coroutine(Raise(<<>>, "Exception"))}
            ELSE {send_result(<<call_handler("rpc_handler", request, o)>>, result_msg(o)) :
                    o \in RpcOutcomes}

recv_subscribe(self, data) ==
    IF Len(data.list) < 4 THEN {Coroutine(Raise(<<>>, "IndexError"))}
    ELSE
    LET request_id == data.list[2]
        options == data.list[3]
        uri == data.list[4]
        request == [obj |-> "WAMPSubscribeRequest", session |-> self.session,
                    request_id |-> request_id, options |-> options, uri |-> uri]
        fault(text) ==
            PyTuple(<<Member("ERROR"), Member("SUBSCRIBE"), request_id, EmptyDict,
                      PyStr("wamp.error.exception_during_rpc_call"), PyStr(text)>>)
        result_msg(o) ==
            IF raised(o) THEN fault(o.raises)
            ELSE IF IsInstanceOf(o.returns, "WAMPSubscribeErrorResponse")
                THEN PyTuple(<<Member("ERROR"), Member("SUBSCRIBE"), request_id,
                               o.returns.details, o.returns.uri>>)
            ELSE IF "subscription" \in DOMAIN o.returns
                THEN PyTuple(<<Member("SUBSCRIBED"), request_id, o.returns.subscription>>)
            ELSE fault("object has no attribute 'subscription'")
    IN  {send_result(<<call_handler("subscribe_handler", request, o)>>, result_msg(o)) :
            o \in SubscribeOutcomes}

\* recv_unsubscribe reading request_id from the wrong field of the envelope
\* (data[2], the subscription).
recv_unsubscribe_wrong_field(self, data) ==
    IF Len(data.list) < 3 THEN {Coroutine(Raise(<<>>, "IndexError"))}
    ELSE
    LET request_id == data.list[3]
        subscription == data.list[3]
        request == [obj |-> "WAMPUnsubscribeRequest", session |-> self.session,
                    request_id |-> request_id, subscription |-> subscription]
        result_msg(o) ==
            IF raised(o)
                THEN PyTuple(<<Member("ERROR"), Member("SUBSCRIBE"), request_id, EmptyDict,
                               PyStr("wamp.error.exception_during_rpc_call"),
                               PyStr(o.raises)>>)
            ELSE IF IsInstanceOf(o.returns, "WAMPUnsubscribeErrorResponse")
                THEN PyTuple(<<Member("ERROR"), Member("UNSUBSCRIBE"), request_id,
                               o.returns.details, o.returns.uri>>)
            ELSE PyTuple(<<Member("UNSUBSCRIBED"), request_id>>)
    IN  {send_result(<<call_handler("unsubscribe_handler", request, o)>>, result_msg(o)) :
            o \in UnsubscribeOutcomes}

recv_unsubscribe(self, data) ==
    IF Len(data.list) < 3 THEN {Coroutine(Raise(<<>>, "IndexError"))}
    ELSE
    LET request_id == data.list[2]
        subscription == data.list[3]
        request == [obj |-> "WAMPUnsubscribeRequest", session |-> self.session,
                    request_id |-> request_id, subscription |-> subscription]
        result_msg(o) ==
            IF raised(o)
                THEN PyTuple(<<Member("ERROR"), Member("SUBSCRIBE"), request_id, EmptyDict,
                               PyStr("wamp.error.exception_during_rpc_call"),
                               PyStr(o.raises)>>)
            ELSE IF IsInstanceOf(o.returns, "WAMPUnsubscribeErrorResponse")
                THEN PyTuple(<<Member("ERROR"), Member("UNSUBSCRIBE"), request_id,
                               o.returns.details, o.returns.uri>>)
            ELSE PyTuple(<<Member("UNSUBSCRIBED"), request_id>>)
    IN  {send_result(<<call_handler("unsubscribe_handler", request, o)>>, result_msg(o)) :
            o \in UnsubscribeOutcomes}

\* self._open_handler(self.session), after do_welcome.
open_session(self) ==
    {IF raised(o)
        THEN Raise(do_welcome(self).calls \o <<call_handler("open_handler", self.session, o)>>,
                   "Exception")
        ELSE Return(do_welcome(self).calls \o <<call_handler("open_handler", self.session, o)>>) :
     o \in OpenOutcomes}

handle_msg(self, message) ==
    IF ~decodable(message) THEN {Coroutine(Raise(<<>>, "JSONDecodeError"))}
    ELSE
    LET data == deserialize(message)
    IN  IF ~isinstance(data, "list") THEN {Coroutine(Raise(<<>>, "Exception"))}
        ELSE IF Len(data.list) < 1 THEN {Coroutine(Raise(<<>>, "IndexError"))}
        ELSE
        LET msg_type == data.list[1]
        IN  IF EqualsMember(msg_type, "HELLO")
                THEN {Coroutine(r) : r \in open_session(self)}
            ELSE IF EqualsMember(msg_type, "CALL")
                THEN {Coroutine(Await(r)) : r \in recv_rpc_call(self, data)}
            ELSE IF EqualsMember(msg_type, "SUBSCRIBE")
                THEN {Coroutine(Await(r)) : r \in recv_subscribe(self, data)}
            ELSE IF EqualsMember(msg_type, "UNSUBSCRIBE")
                THEN {Coroutine(Await(r)) : r \in recv_unsubscribe(self, data)}
            ELSE IF EqualsMember(msg_type, "EVENT") \/ EqualsMember(msg_type, "INVOCATION")
                THEN {Coroutine(Await(do_unauthorized(self, data)))}
            ELSE IF EqualsMember(msg_type, "PUBLISH") \/ EqualsMember(msg_type, "PUBLISHED")
                THEN IF Len(data.list) < 2 THEN {Coroutine(Raise(<<>>, "IndexError"))}
                     ELSE {Coroutine(do_unimplemented(self, msg_type, data.list[2]))}
            ELSE {Coroutine(Await(
                    do_protocol_violation(self, PyStr("Unknown WAMP message type."))))}

----------------------------------------------------------------------------
(* The inputs: texts a peer may send, events a broker may publish.         *)

Envelope(fields) == [json |-> JArray(fields)]

Messages ==
    {[garbage |-> "not json"],
     [json |-> JObject(<<>>)],
     Envelope(<<>>),
     Envelope(<<JNumber(1), JString("realm1"), JObject(<<>>)>>),
     Envelope(<<JNumber(48), JNumber(3), JString("math.add")>>),
     Envelope(<<JNumber(48), JNumber(7), JString("math.add"),
                JArray(<<JNumber(2), JNumber(3)>>)>>),
     Envelope(<<JNumber(48), JNumber(7), JString("math.add"),
                JArray(<<JNumber(2), JNumber(3)>>), JObject([k |-> JNumber(1)])>>),
     Envelope(<<JNumber(48), JString("x"), JString("math.add")>>),
     Envelope(<<JNumber(48), JNumber(3), JNumber(5)>>),
     Envelope(<<JNumber(48)>>),
     Envelope(<<JNumber(32), JNumber(3), JObject(<<>>), JString("topic.x")>>),
     Envelope(<<JNumber(32), JNumber(7)>>),
     Envelope(<<JNumber(34), JNumber(7), JNumber(42)>>),
     Envelope(<<JNumber(34)>>),
     Envelope(<<JNumber(36), JNumber(3), JNumber(9), JObject(<<>>)>>),
     Envelope(<<JNumber(68), JNumber(7), JNumber(1), JObject(<<>>)>>),
     Envelope(<<JNumber(36)>>),
     Envelope(<<JNumber(16), JNumber(3), JObject(<<>>), JString("topic.x")>>),
     Envelope(<<JNumber(17), JNumber(7), JNumber(9)>>),
     Envelope(<<JNumber(16)>>),
     Envelope(<<JNumber(99), JNumber(3)>>),
     Envelope(<<JString("hello")>>)}

Subscriptions == {PyInt(42)}

Events ==
    [publication : {PyInt(9)},
     details : {EmptyDict, PyDict([topic |-> PyStr("topic.x")])},
     args : {EmptyTuple, PyTuple(<<PyInt(1)>>)},
     kwargs : {EmptyDict, PyDict([k |-> PyInt(1)])}]

----------------------------------------------------------------------------
(* The state machine.                                                      *)

\* The WAMPProtocol object: __init__ stores the session and the agent name.
Self == [session |-> session, agent_name |-> "aiohttp-server-wamp"]

Idle == [awaiting |-> FALSE, rest |-> <<>>, by |-> 0, exc |-> "None"]

\* __init__: a session with a generated id and the peer's address.
Init ==
    /\ session \in [session_id : 1..MaxGlobalId, remote : {"127.0.0.1:50000"}]
    /\ calls = <<>>
    /\ handled = <<>>
    /\ task = Idle

\* The calls not made by a handle_msg invocation are publish_event's.
Published == Cardinality({i \in DOMAIN calls : calls[i].by = 0})
Ops == Len(handled) + Published

Tag(cs, k) == [i \in 1..Len(cs) |-> cs[i] @@ [by |-> k]]

\* publish_event's calls are recorded with the arguments it was given.
TagEvent(cs, subscription, event) ==
    [i \in 1..Len(cs) |->
        cs[i] @@ [by |-> 0, subscription |-> subscription, event |-> event]]

\* A coroutine runs up to and including its first awaited call.
FirstAwait(cs) ==
    IF \E i \in 1..Len(cs) : cs[i].awaited
        THEN CHOOSE i \in 1..Len(cs) :
                cs[i].awaited /\ \A j \in 1..(i - 1) : ~cs[j].awaited
        ELSE Len(cs)
Suspends(cs) == \E i \in 1..Len(cs) : cs[i].awaited

\* The caller awaits handle_msg(message) for one text received from the peer.
HandleMsg ==
    /\ ~task.awaiting
    /\ Ops < MaxOps
    /\ \E message \in Messages : \E r \in handle_msg(Self, message) :
        LET k == Len(handled) + 1
            n == FirstAwait(r.calls)
        IN  /\ calls' = calls \o Tag(SubSeq(r.calls, 1, n), k)
            /\ IF Suspends(r.calls)
                 THEN /\ task' = [awaiting |-> TRUE, by |-> k, exc |-> r.exc,
                                  rest |-> SubSeq(r.calls, n + 1, Len(r.calls))]
                      /\ handled' = Append(handled, [message |-> message, exc |-> "pending"])
                 ELSE /\ task' = Idle
                      /\ handled' = Append(handled, [message |-> message, exc |-> r.exc])
    /\ UNCHANGED session

\* The event loop resumes the suspended coroutine: it runs to its next await,
\* or to its end.
Resume ==
    /\ task.awaiting
    /\ LET n == FirstAwait(task.rest)
       IN  /\ calls' = calls \o Tag(SubSeq(task.rest, 1, n), task.by)
           /\ IF Suspends(task.rest)
                THEN /\ task' = [task EXCEPT !.rest = SubSeq(task.rest, n + 1, Len(task.rest))]
                     /\ UNCHANGED handled
                ELSE /\ task' = Idle
                     /\ handled' = [handled EXCEPT ![task.by].exc = task.exc]
    /\ UNCHANGED session

\* The broker calls publish_event(subscription, event); it is a plain method,
\* so it runs whenever no coroutine of this protocol is running, also while
\* handle_msg is suspended.
PublishEvent ==
    /\ Ops < MaxOps
    /\ \E subscription \in Subscriptions, event \in Events :
        calls' = calls \o TagEvent(publish_event(Self, subscription, event).calls,
                                   subscription, event)
    /\ UNCHANGED <<session, handled, task>>

Next == HandleMsg \/ Resume \/ PublishEvent

Spec == Init /\ [][Next]_vars

----------------------------------------------------------------------------
(* Vocabulary of the properties.  The protocol object stores no session    *)
(* state; the states of the session are read off the history: the session  *)
(* is AwaitingHello until a HELLO envelope has been handled, and Closed    *)
(* once a protocol violation has sent its ABORT.                           *)

Code(name) == JNumber(WAMPMsgType[name])
Codes == {Code(name) : name \in DOMAIN WAMPMsgType}

\* The text is an envelope: a JSON array.
IsEnvelope(message) == decodable(message) /\ "array" \in DOMAIN message.json
Fields(message) == message.json.array
IsType(message, name) ==
    /\ IsEnvelope(message)
    /\ Len(Fields(message)) >= 1
    /\ Fields(message)[1] = Code(name)

Invocations == 1..Len(handled)
Completed(k) == handled[k].exc # "pending"

\* The calls made by the k-th handle_msg invocation, in order.
CallsBy(k) == LET by_k(c) == c.by = k IN SelectSeq(calls, by_k)
SentBy(k) ==
    LET sent(c) == c.by = k /\ c.op = "schedule_msg"
        all == SelectSeq(calls, sent)
    IN  [i \in 1..Len(all) |-> all[i].msg]
HandlerOps == {"open_handler", "rpc_handler", "subscribe_handler", "unsubscribe_handler"}
HandlerCallsBy(k) == {i \in DOMAIN calls : calls[i].by = k /\ calls[i].op \in HandlerOps}
ClosesBy(k) == {i \in DOMAIN calls : calls[i].by = k /\ calls[i].op = "close"}
AbortsBy(k) ==
    {i \in DOMAIN calls :
        /\ calls[i].by = k
        /\ calls[i].op = "schedule_msg"
        /\ IsType(calls[i].msg, "ABORT")}

HelloBefore(k) == \E j \in 1..(k - 1) : IsType(handled[j].message, "HELLO")
ViolationBefore(k) == \E j \in 1..(k - 1) : AbortsBy(j) # {}
EstablishedAt(k) == HelloBefore(k) /\ ~ViolationBefore(k)

NotAuthorized(type, request_id) ==
    Envelope(<<type, request_id, JObject(<<>>), JString("wamp.error.not_authorized")>>)
NotImplemented(request_id) ==
    Envelope(<<Code("ERROR"), request_id, JObject(<<>>),
               JString("wamp.error.not_implemented")>>)
Abort(reason) ==
    Envelope(<<Code("ABORT"), JObject([message |-> JString(reason)]),
               JString("wamp.error.protocol_violation")>>)

----------------------------------------------------------------------------
WelcomesBy(k) ==
    {i \in DOMAIN calls :
        /\ calls[i].by = k
        /\ calls[i].op = "schedule_msg"
        /\ IsType(calls[i].msg, "WELCOME")}
OpensBy(k) == {i \in DOMAIN calls : calls[i].by = k /\ calls[i].op = "open_handler"}

(* C1: when the first text handled on a fresh session is a HELLO envelope, *)
(* that invocation sends exactly one WELCOME envelope, whose second field  *)
(* is the session_id of the protocol's own session, and calls the open     *)
(* handler exactly once, with that session.                                *)
C1_HelloWelcomesOnce ==
    (Len(handled) >= 1 /\ IsType(handled[1].message, "HELLO")) =>
        /\ Cardinality(WelcomesBy(1)) = 1
        /\ \A i \in WelcomesBy(1) :
            Fields(calls[i].msg)[2] = JNumber(session.session_id)
        /\ Cardinality(OpensBy(1)) = 1
        /\ \A i \in OpensBy(1) : calls[i].request = session

C1_Witness ==
    /\ Len(handled) >= 1
    /\ IsType(handled[1].message, "HELLO")
    /\ handled[1].exc = "None"
    /\ WelcomesBy(1) # {}

NonHelloTypes ==
    {"CALL", "SUBSCRIBE", "UNSUBSCRIBE", "EVENT", "INVOCATION", "PUBLISH", "PUBLISHED"}
RequestHandlerCallsBy(k) ==
    {i \in HandlerCallsBy(k) : calls[i].op # "open_handler"}

(* C2: while no HELLO has been handled, an envelope of another type        *)
(* (CALL, SUBSCRIBE, UNSUBSCRIBE, EVENT, INVOCATION, PUBLISH, PUBLISHED)   *)
(* sends an ABORT, has the transport closed, and reaches none of the rpc,  *)
(* subscribe and unsubscribe handlers.                                     *)
C2_NonHelloBeforeHelloIsViolation ==
    \A k \in Invocations :
        (/\ Completed(k)
         /\ ~HelloBefore(k)
         /\ \E name \in NonHelloTypes : IsType(handled[k].message, name)
         /\ Len(Fields(handled[k].message)) >= 3)
        => /\ AbortsBy(k) # {}
           /\ ClosesBy(k) # {}
           /\ RequestHandlerCallsBy(k) = {}

(* C3: once a protocol violation has sent its ABORT, a text passed to      *)
(* handle_msg afterwards makes no call at all: no handler is invoked and   *)
(* nothing is sent on the transport.                                       *)
C3_NothingProcessedAfterClosed ==
    \A k \in Invocations : ViolationBefore(k) => CallsBy(k) = <<>>

UnknownType(message) ==
    /\ IsEnvelope(message)
    /\ Len(Fields(message)) >= 1
    /\ Fields(message)[1] \notin Codes

(* C4: an envelope whose first field is none of the message-type codes     *)
(* makes handle_msg send exactly one ABORT envelope                        *)
(* [ABORT, {message: reason}, "wamp.error.protocol_violation"] and then    *)
(* request exactly one transport close; these are its only calls, and the  *)
(* close never comes before the ABORT.                                     *)
C4_UnknownTypeAbortsThenCloses ==
    \A k \in Invocations :
        UnknownType(handled[k].message) =>
            LET made == CallsBy(k)
            IN  /\ Len(made) \in 1..2
                /\ made[1].op = "schedule_msg"
                /\ made[1].msg = Abort("Unknown WAMP message type.")
                /\ Len(made) = 2 => made[2].op = "close"
                /\ Completed(k) => (Len(made) = 2 /\ handled[k].exc = "None")

C4_Witness ==
    \E k \in Invocations :
        /\ UnknownType(handled[k].message)
        /\ Completed(k)
        /\ ClosesBy(k) # {}
        /\ AbortsBy(k) # {}

(* C5: a text that is no JSON document, or whose top-level value is not an *)
(* array, is answered with an ABORT envelope and a transport close.        *)
C5_MalformedIsViolation ==
    \A k \in Invocations :
        (Completed(k) /\ ~IsEnvelope(handled[k].message))
        => (AbortsBy(k) # {} /\ ClosesBy(k) # {})

(* C6: in Established, an EVENT or INVOCATION envelope from the peer is    *)
(* answered with exactly one reply                                         *)
(* [message_type, request_id, {}, "wamp.error.not_authorized"] built from  *)
(* its first two fields; handle_msg returns without an exception and the   *)
(* transport is not closed.                                                *)
C6_UnauthorizedRepliesWithoutFault ==
    \A k \in Invocations :
        (/\ Completed(k)
         /\ EstablishedAt(k)
         /\ IsType(handled[k].message, "EVENT") \/ IsType(handled[k].message, "INVOCATION")
         /\ Len(Fields(handled[k].message)) >= 2)
        => /\ SentBy(k) = <<NotAuthorized(Fields(handled[k].message)[1],
                                          Fields(handled[k].message)[2])>>
           /\ handled[k].exc = "None"
           /\ ClosesBy(k) = {}

IsUnimplemented(message) ==
    /\ IsType(message, "PUBLISH") \/ IsType(message, "PUBLISHED")
    /\ Len(Fields(message)) >= 2

(* C7: in Established, a PUBLISH or PUBLISHED envelope (one that has a     *)
(* request id) makes handle_msg do exactly one thing: send                 *)
(* [ERROR, request_id, {}, "wamp.error.not_implemented"] with the          *)
(* envelope's request id.  No handler is called, no close is requested,    *)
(* no ABORT is sent, and handle_msg returns normally.                      *)
C7_UnimplementedRepliesOnce ==
    \A k \in Invocations :
        (EstablishedAt(k) /\ IsUnimplemented(handled[k].message))
        => /\ Len(CallsBy(k)) = 1
           /\ SentBy(k) = <<NotImplemented(Fields(handled[k].message)[2])>>
           /\ handled[k].exc = "None"
           /\ ~ViolationBefore(k + 1)

C7_Witness ==
    \E k \in Invocations :
        /\ EstablishedAt(k)
        /\ IsUnimplemented(handled[k].message)
        /\ Len(SentBy(k)) = 1

RpcCallsBy(k) == {i \in DOMAIN calls : calls[i].by = k /\ calls[i].op = "rpc_handler"}
ReturnedCoroutine(o) == ~raised(o) /\ IsInstanceOf(o.returns, "coroutine")

(* C8: every CALL envelope that has a request_id and a uri field causes    *)
(* exactly one outbound envelope, whether the rpc handler returns a plain  *)
(* value, returns a typed error or raises, and also when request_id is not *)
(* an integer or uri is not a string.                                      *)
C8_OneReplyPerCall ==
    \A k \in Invocations :
        (/\ Completed(k)
         /\ IsType(handled[k].message, "CALL")
         /\ Len(Fields(handled[k].message)) >= 3
         /\ \A i \in RpcCallsBy(k) : ~ReturnedCoroutine(calls[i].outcome))
        => Len(SentBy(k)) = 1

ValidCall(message) ==
    /\ IsType(message, "CALL")
    /\ Len(Fields(message)) >= 3
    /\ "number" \in DOMAIN Fields(message)[2]
    /\ "string" \in DOMAIN Fields(message)[3]

PlainValue(o) == ~raised(o) /\ serializable(o.returns)

RequestCarries(request, fields) ==
    /\ request.request_id = loads(fields[2])
    /\ request.uri = loads(fields[3])
    /\ request.args = IF Len(fields) >= 4 THEN loads(fields[4]) ELSE EmptyTuple
    /\ request.kwargs = IF Len(fields) >= 5 THEN loads(fields[5]) ELSE EmptyDict

(* C9: for a CALL envelope with an integer request_id and a string uri,    *)
(* the rpc handler is called exactly once, with a request that carries the *)
(* protocol's session, the envelope's request_id and uri, and its args and *)
(* kwargs (empty when the envelope has none); and when the handler returns *)
(* a plain value r, the one envelope sent is [CALL_RESULT, request_id, r]. *)
C9_PlainResultIsCallResult ==
    \A k \in Invocations :
        ValidCall(handled[k].message) =>
            /\ Cardinality(RpcCallsBy(k)) = 1
            /\ \A i \in RpcCallsBy(k) :
                /\ calls[i].request.session = session
                /\ RequestCarries(calls[i].request, Fields(handled[k].message))
                /\ PlainValue(calls[i].outcome) =>
                    SentBy(k) = <<Envelope(<<Code("CALL_RESULT"),
                                            Fields(handled[k].message)[2],
                                            dumps(calls[i].outcome.returns)>>)>>

C9_Witness ==
    \E k \in Invocations :
        /\ ValidCall(handled[k].message)
        /\ Len(Fields(handled[k].message)) = 4
        /\ \E i \in RpcCallsBy(k) : PlainValue(calls[i].outcome)
        /\ SentBy(k) = <<Envelope(<<JNumber(50), JNumber(7), JNumber(5)>>)>>

IsRequest(message) ==
    IsType(message, "CALL") \/ IsType(message, "SUBSCRIBE") \/ IsType(message, "UNSUBSCRIBE")

ReplyRequestId(reply) ==
    IF IsType(reply, "ERROR") THEN Fields(reply)[3] ELSE Fields(reply)[2]

(* C10: every envelope sent in answer to a CALL, SUBSCRIBE or UNSUBSCRIBE  *)
(* (a success reply, a typed-error reply or a generic-fault reply) carries *)
(* the request_id field of the envelope being answered: as its third field *)
(* in an ERROR reply, as its second field in any other reply.              *)
C10_RepliesEchoRequestId ==
    \A k \in Invocations :
        IsRequest(handled[k].message) =>
            \A n \in 1..Len(SentBy(k)) :
                /\ Len(Fields(handled[k].message)) >= 2
                /\ ReplyRequestId(SentBy(k)[n]) = Fields(handled[k].message)[2]

C10_Witness ==
    \E k \in Invocations :
        /\ IsType(handled[k].message, "UNSUBSCRIBE")
        /\ \E i \in HandlerCallsBy(k) : raised(calls[i].outcome)
        /\ Len(SentBy(k)) = 1
        /\ IsType(SentBy(k)[1], "ERROR")
        /\ ReplyRequestId(SentBy(k)[1]) = JNumber(7)

GenericFault(type, request_id, text) ==
    Envelope(<<Code("ERROR"), type, request_id, JObject(<<>>),
               JString("wamp.error.exception_during_rpc_call"), JString(text)>>)

(* C11: in Established, when the handler called for a CALL, SUBSCRIBE or   *)
(* UNSUBSCRIBE raises, handle_msg sends exactly one reply                  *)
(* [ERROR, <type of the request>, request_id, {},                          *)
(* "wamp.error.exception_during_rpc_call", <text of the exception>],       *)
(* returns without an exception, sends no ABORT and requests no close.     *)
C11_FaultBecomesGenericError ==
    \A k \in Invocations :
        (/\ Completed(k)
         /\ EstablishedAt(k)
         /\ IsRequest(handled[k].message))
        => \A i \in HandlerCallsBy(k) :
            raised(calls[i].outcome) =>
                /\ SentBy(k) = <<GenericFault(Fields(handled[k].message)[1],
                                              Fields(handled[k].message)[2],
                                              calls[i].outcome.raises)>>
                /\ handled[k].exc = "None"
                /\ AbortsBy(k) = {}
                /\ ClosesBy(k) = {}

ReturnedRPCError(o) == ~raised(o) /\ IsInstanceOf(o.returns, "WAMPRPCErrorResponse")

(* C12: when the rpc handler returns a typed RPC error e for a CALL, the   *)
(* reply is [ERROR, CALL, request_id, e.details, e.uri, e.args, e.kwargs]. *)
C12_TypedErrorCarriedWhole ==
    \A k \in Invocations :
        ValidCall(handled[k].message) =>
            \A i \in RpcCallsBy(k) :
                ReturnedRPCError(calls[i].outcome) =>
                    SentBy(k) =
                        <<Envelope(<<Code("ERROR"), Code("CALL"),
                                     Fields(handled[k].message)[2],
                                     dumps(calls[i].outcome.returns.details),
                                     dumps(calls[i].outcome.returns.uri),
                                     dumps(calls[i].outcome.returns.args),
                                     dumps(calls[i].outcome.returns.kwargs)>>)>>

(* C13: every ERROR envelope sent in answer to an UNSUBSCRIBE, for a typed *)
(* error returned by the unsubscribe handler or for an exception it        *)
(* raised, has UNSUBSCRIBE's code (34) as its second field.                *)
C13_UnsubscribeErrorsNameUnsubscribe ==
    \A k \in Invocations :
        IsType(handled[k].message, "UNSUBSCRIBE") =>
            \A n \in 1..Len(SentBy(k)) :
                IsType(SentBy(k)[n], "ERROR") =>
                    Fields(SentBy(k)[n])[2] = Code("UNSUBSCRIBE")

EventCalls == {i \in DOMAIN calls : calls[i].by = 0}

\* A step of publish_event: calls are made, by no handle_msg invocation.
PublishStep == calls' # calls /\ UNCHANGED <<handled, task>>

TrailingFields(event) ==
    IF event.kwargs # EmptyDict THEN <<dumps(event.args), dumps(event.kwargs)>>
    ELSE IF event.args # EmptyTuple THEN <<dumps(event.args)>>
    ELSE <<>>

OneEventAppended ==
    /\ Len(calls') = Len(calls) + 1
    /\ SubSeq(calls', 1, Len(calls)) = calls
    /\ LET sent == calls'[Len(calls')]
       IN  /\ sent.op = "schedule_msg"
           /\ IsType(sent.msg, "EVENT")
           /\ Len(Fields(sent.msg)) >= 4
           /\ SubSeq(Fields(sent.msg), 5, Len(Fields(sent.msg)))
                = TrailingFields(sent.event)

(* C14: publish_event(subscription, event) sends exactly one envelope, an  *)
(* EVENT whose fields after the fourth are args and kwargs, in that order, *)
(* when event.kwargs is not empty (also when args is empty); args alone    *)
(* when kwargs is empty and args is not; and none when both are empty.     *)
C14_EventFieldInclusion == [][PublishStep => OneEventAppended]_vars

C14_Witness ==
    \E i \in EventCalls :
        /\ calls[i].event.kwargs # EmptyDict
        /\ calls[i].event.args = EmptyTuple
        /\ Len(Fields(calls[i].msg)) = 6

(* C16: when the rpc handler is asynchronous (calling it gives a pending   *)
(* computation that completes later with a value), the reply to the CALL   *)
(* is sent and is [CALL_RESULT, request_id, <the completed value>].        *)
C16_AsyncResultAwaited ==
    \A k \in Invocations :
        (Completed(k) /\ ValidCall(handled[k].message)) =>
            \A i \in RpcCallsBy(k) :
                ReturnedCoroutine(calls[i].outcome) =>
                    SentBy(k) = <<Envelope(<<Code("CALL_RESULT"),
                                            Fields(handled[k].message)[2],
                                            dumps(calls[i].outcome.returns.result)>>)>>

CloseCalls == {i \in DOMAIN calls : calls[i].op = "close"}

(* C18: a transport close is requested only by a handle_msg invocation     *)
(* that has already sent an ABORT envelope (the session is Closed by       *)
(* then), and never by publish_event nor by the handling of a CALL,        *)
(* SUBSCRIBE, UNSUBSCRIBE, EVENT, INVOCATION, PUBLISH or PUBLISHED         *)
(* envelope.                                                               *)
C18_CloseOnlyAfterAbort ==
    \A i \in CloseCalls :
        /\ calls[i].by \in Invocations
        /\ \E j \in AbortsBy(calls[i].by) : j < i
        /\ \A name \in NonHelloTypes : ~IsType(handled[calls[i].by].message, name)

C18_Witness ==
    /\ \E i \in CloseCalls : \E j \in AbortsBy(calls[i].by) : j < i
    /\ \E k \in Invocations :
        /\ IsRequest(handled[k].message)
        /\ Len(SentBy(k)) = 1
        /\ ClosesBy(k) = {}

(* C19: the EVENT envelope sent by publish_event(subscription, event)      *)
(* begins with the EVENT code, the subscription, event.publication and     *)
(* event.details, also when event.details is not empty.                    *)
C19_EventCarriesDetails ==
    \A i \in EventCalls :
        /\ Len(Fields(calls[i].msg)) >= 4
        /\ SubSeq(Fields(calls[i].msg), 1, 4)
             = <<Code("EVENT"), dumps(calls[i].subscription),
                 dumps(calls[i].event.publication), dumps(calls[i].event.details)>>

AllWelcomes ==
    {i \in DOMAIN calls : calls[i].op = "schedule_msg" /\ IsType(calls[i].msg, "WELCOME")}
AllOpens == {i \in DOMAIN calls : calls[i].op = "open_handler"}

(* C20: over any sequence of texts handled on one session, also one with   *)
(* more than one HELLO, at most one WELCOME envelope is sent and the open  *)
(* handler is called at most once.                                         *)
C20_AtMostOneWelcome ==
    Cardinality(AllWelcomes) <= 1 /\ Cardinality(AllOpens) <= 1

----------------------------------------------------------------------------
(* Several protocol objects, one per connection, on one event loop; and    *)
(* callers that do not wait for one handle_msg to finish before they pass  *)
(* the next text to the same protocol.  In SpecSessions every variable     *)
(* holds one value per protocol object: session[p], calls[p], handled[p],  *)
(* and task[p], the set of p's handle_msg coroutines suspended at an       *)
(* await.                                                                  *)

Protocols == {1, 2}

SessionMessages ==
    {Envelope(<<JNumber(1), JString("realm1"), JObject(<<>>)>>),
     Envelope(<<JNumber(48), JNumber(3), JString("math.add")>>),
     Envelope(<<JNumber(32), JNumber(3), JObject(<<>>), JString("topic.x")>>),
     Envelope(<<JNumber(34), JNumber(7), JNumber(42)>>),
     Envelope(<<JNumber(99), JNumber(3)>>)}

SessionEvents ==
    {e \in Events : e.details = EmptyDict /\ (e.kwargs = EmptyDict <=> e.args = EmptyTuple)}

\* A class attribute in place of the instance attribute: every protocol
\* object writes to the transport of the first.
transport_of_shared(p) == 1

\* self.transport = transport: each protocol object has the transport it
\* was constructed with.
transport_of(p) == p

SelfOf(p) == [session |-> session[p], agent_name |-> "aiohttp-server-wamp"]

InitSessions ==
    /\ session \in [Protocols -> [session_id : 1..MaxGlobalId, remote : {"127.0.0.1:50000"}]]
    /\ calls = [p \in Protocols |-> <<>>]
    /\ handled = [p \in Protocols |-> <<>>]
    /\ task = [p \in Protocols |-> {}]

OpsOf(p) ==
    Len(handled[p]) + Cardinality({i \in DOMAIN calls[p] : calls[p][i].by = 0})
RECURSIVE SumOps(_)
SumOps(S) ==
    IF S = {} THEN 0
    ELSE LET p == CHOOSE x \in S : TRUE IN OpsOf(p) + SumOps(S \ {p})
TotalOps == SumOps(Protocols)

\* handle_msg(message) is started on protocol p, whether or not an earlier
\* invocation on p is still suspended.
StartHandleMsg ==
    /\ TotalOps < MaxOps
    /\ \E p \in Protocols, message \in SessionMessages :
        \E r \in handle_msg(SelfOf(p), message) :
            LET k == Len(handled[p]) + 1
                n == FirstAwait(r.calls)
            IN  /\ calls' = [calls EXCEPT ![transport_of(p)] =
                                @ \o Tag(SubSeq(r.calls, 1, n), k)]
                /\ IF Suspends(r.calls)
                     THEN /\ task' = [task EXCEPT ![p] = @ \cup
                                {[by |-> k, exc |-> r.exc,
                                  rest |-> SubSeq(r.calls, n + 1, Len(r.calls))]}]
                          /\ handled' = [handled EXCEPT ![p] =
                                Append(@, [message |-> message, exc |-> "pending"])]
                     ELSE /\ task' = task
                          /\ handled' = [handled EXCEPT ![p] =
                                Append(@, [message |-> message, exc |-> r.exc])]
    /\ UNCHANGED session

\* The event loop resumes one of the suspended coroutines.
ResumeTask ==
    /\ \E p \in Protocols : \E t \in task[p] :
        LET n == FirstAwait(t.rest)
        IN  /\ calls' = [calls EXCEPT ![transport_of(p)] =
                            @ \o Tag(SubSeq(t.rest, 1, n), t.by)]
            /\ IF Suspends(t.rest)
                 THEN /\ task' = [task EXCEPT ![p] = (@ \ {t}) \cup
                            {[t EXCEPT !.rest = SubSeq(t.rest, n + 1, Len(t.rest))]}]
                      /\ UNCHANGED handled
                 ELSE /\ task' = [task EXCEPT ![p] = @ \ {t}]
                      /\ handled' = [handled EXCEPT ![p][t.by].exc = t.exc]
    /\ UNCHANGED session

\* The broker publishes an event to the peer of protocol p.
PublishEventTo ==
    /\ TotalOps < MaxOps
    /\ \E p \in Protocols, subscription \in Subscriptions, event \in SessionEvents :
        calls' = [calls EXCEPT ![transport_of(p)] =
                    @ \o TagEvent(publish_event(SelfOf(p), subscription, event).calls,
                                  subscription, event)]
    /\ UNCHANGED <<session, handled, task>>

NextSessions == StartHandleMsg \/ ResumeTask \/ PublishEventTo

SpecSessions == InitSessions /\ [][NextSessions]_vars

----------------------------------------------------------------------------
\* Vocabulary over SpecSessions.

InvocationsOf(p) == 1..Len(handled[p])
CallIndexesOf(p, k) == {i \in DOMAIN calls[p] : calls[p][i].by = k}
RepliesOf(p, k) ==
    {i \in CallIndexesOf(p, k) : calls[p][i].op = "schedule_msg"}

\* The calls of invocation k on p are adjacent in the log of p's transport.
Contiguous(p, k) ==
    \A i \in CallIndexesOf(p, k), j \in CallIndexesOf(p, k) :
        \A m \in i..j : calls[p][m].by = k

\* Every call of invocation k on p comes before every call of a later
\* invocation on p.
BeforeLater(p, k) ==
    \A i \in CallIndexesOf(p, k), j \in DOMAIN calls[p] :
        calls[p][j].by > k => i < j

(* C15: a CALL, SUBSCRIBE or UNSUBSCRIBE is resolved in one piece: its     *)
(* handle_msg invocation is never left suspended, nothing else (no call of *)
(* another invocation, no published event) gets between its handler call   *)
(* and its reply, and all of it comes before any call made for a later     *)
(* envelope of the same protocol, so replies go out in arrival order       *)
(* however invocations and publish_event calls interleave.                 *)
C15_RequestsResolvedInOrder ==
    \A p \in Protocols : \A k \in InvocationsOf(p) :
        IsRequest(handled[p][k].message) =>
            /\ handled[p][k].exc # "pending"
            /\ Contiguous(p, k)
            /\ BeforeLater(p, k)

\* A request was answered on a protocol on which an earlier invocation is
\* still suspended.
C15_Witness ==
    \E p \in Protocols : \E j \in InvocationsOf(p), k \in InvocationsOf(p) :
        /\ j < k
        /\ handled[p][j].exc = "pending"
        /\ IsRequest(handled[p][k].message)
        /\ Cardinality(RepliesOf(p, k)) = 1

\* A step of protocol p: one of its invocations starts, resumes or ends.
StepOf(p) == handled'[p] # handled[p] \/ task'[p] # task[p]

UntouchedIn(q) ==
    /\ session'[q] = session[q]
    /\ calls'[q] = calls[q]
    /\ handled'[q] = handled[q]
    /\ task'[q] = task[q]

(* C17: a step in which one protocol object handles an envelope changes    *)
(* nothing of any other protocol object: not its session, not what was     *)
(* written to its transport, not its handled envelopes, not its suspended  *)
(* coroutines; and a publish_event writes to one transport only.           *)
C17_ProtocolsDoNotInterfere ==
    [][/\ \A p \in Protocols : StepOf(p) =>
              \A q \in Protocols \ {p} : UntouchedIn(q)
       /\ \A p \in Protocols, q \in Protocols :
              (calls'[p] # calls[p] /\ calls'[q] # calls[q]) => p = q
       /\ \A p \in Protocols :
              \A i \in DOMAIN calls'[p] :
                  calls'[p][i].by # 0 => calls'[p][i].by \in 1..Len(handled'[p])
       ]_vars

\* Each of the two protocols has handled an envelope and written to its
\* transport.
C17_Witness ==
    \A p \in Protocols :
        /\ Len(handled[p]) = 1
        /\ CallIndexesOf(p, 1) # {}

====
